---- MODULE Spec2Model ----
(***************************************************************************)
(* Model of the transaction-ingestion client (src/src/main.rs): the retry  *)
(* supervisor in main, the subscribe/dispatch loop of geyser_subscribe,    *)
(* the record codec create_pretty_transaction and the sink add_record.     *)
(***************************************************************************)
EXTENDS Bags, FiniteSets, Integers, Sequences, TLC

(***************************************************************************)
(* Bounds of the model.                                                    *)
(***************************************************************************)
\* longest inbound sequence of one session
MaxMsgs == 4
\* number of attempts (runs of the retried operation) of one run
MaxAttempts == 3
\* time that may pass while a session waits for its next message
SessionLifetimeMillis == 900000

(***************************************************************************)
(* Program constants.                                                      *)
(***************************************************************************)
\* ExponentialBackoff::default(): schedule of the retry supervisor
INITIAL_INTERVAL_MILLIS == 500
MAX_INTERVAL_MILLIS == 60000
MAX_ELAPSED_TIME_MILLIS == 900000
\* multiplier 1.5 and randomization factor 0.5, as fractions
MULTIPLIER_NUM == 3
MULTIPLIER_DEN == 2
RANDOMIZATION_NUM == 1
RANDOMIZATION_DEN == 2
\* Signature::try_from accepts exactly this many bytes
SIGNATURE_BYTES == 64
\* a Pubkey is this many bytes
PUBKEY_BYTES == 32
\* SubscribeRequestPing { id: 1 }
PING_ID == 1

(***************************************************************************)
(* Option<T>: None is the empty sequence, Some(x) a one-element sequence.  *)
(***************************************************************************)
None == <<>>

Some(x) == <<x>>

IsSome(o) == Len(o) = 1

Unwrap(o) == o[1]

Min(a, b) == IF a <= b THEN a ELSE b

Rep(n, b) == [i \in 1..n |-> b]

(***************************************************************************)
(* Base58 (Bitcoin alphabet), the to_string of Signature and Pubkey.  The  *)
(* number the bytes denote is held in limbs of three base-58 digits,       *)
(* least significant first, so that every product fits the integers.       *)
(***************************************************************************)
ALPHABET == <<"1","2","3","4","5","6","7","8","9",
  "A","B","C","D","E","F","G","H","J","K","L","M","N","P","Q","R","S","T","U","V","W","X","Y","Z",
  "a","b","c","d","e","f","g","h","i","j","k","m","n","o","p","q","r","s","t","u","v","w","x","y","z">>

LIMB == 58 * 58 * 58

\* limbs * 256 + carry
MulAdd[limbs \in Seq(Nat), carry \in Nat] ==
  IF limbs = <<>>
  THEN IF carry = 0 THEN <<>> ELSE <<carry>>
  ELSE <<(carry + Head(limbs) * 256) % LIMB>>
         \o MulAdd[Tail(limbs), (carry + Head(limbs) * 256) \div LIMB]

\* limbs followed by the byte bytes[i], when there is one
AbsorbByte(limbs, bytes, i) == IF i <= Len(bytes) THEN MulAdd[limbs, bytes[i]] ELSE limbs

\* the limbs of the number denoted by limbs followed by bytes[i..], four bytes a pass
Absorb[bytes \in Seq(Nat), i \in Nat, limbs \in Seq(Nat)] ==
  IF i > Len(bytes) THEN limbs
  ELSE Absorb[bytes, i + 4,
              AbsorbByte(AbsorbByte(AbsorbByte(AbsorbByte(limbs, bytes, i),
                                               bytes, i + 1), bytes, i + 2), bytes, i + 3)]

\* the base-58 digits of the limbs, least significant first, without leading zero digits
Digits58[limbs \in Seq(Nat)] ==
  LET digit(j) == CASE j % 3 = 0 -> limbs[(j \div 3) + 1] % 58
                    [] j % 3 = 1 -> (limbs[(j \div 3) + 1] \div 58) % 58
                    [] OTHER -> limbs[(j \div 3) + 1] \div (58 * 58)
      nonzero == { j \in 0..(3 * Len(limbs) - 1) : digit(j) # 0 }
  IN  IF nonzero = {} THEN <<>>
      ELSE [j \in 1..((CHOOSE m \in nonzero : \A k \in nonzero : k <= m) + 1) |-> digit(j - 1)]

\* number of zero bytes the input starts with
LeadingZeros(bytes) ==
  IF \A k \in 1..Len(bytes) : bytes[k] = 0 THEN Len(bytes)
  ELSE (CHOOSE k \in 1..Len(bytes) : bytes[k] # 0 /\ \A j \in 1..(k - 1) : bytes[j] = 0) - 1

\* the characters of the digits digits[lo..hi], most significant first
Render[digits \in Seq(Nat), lo \in Nat, hi \in Nat] ==
  IF lo > hi THEN ""
  ELSE IF lo = hi THEN ALPHABET[digits[lo] + 1]
  ELSE Render[digits, ((lo + hi) \div 2) + 1, hi] \o Render[digits, lo, (lo + hi) \div 2]

\* the digits of the number, then one zero digit for every leading zero byte
AllDigits[bytes \in Seq(Nat)] == Digits58[Absorb[bytes, 1, <<>>]] \o Rep(LeadingZeros(bytes), 0)

Encode[digits \in Seq(Nat)] == Render[digits, 1, Len(digits)]

Base58(bytes) == Encode[AllDigits[bytes]]

(***************************************************************************)
(* Inbound data.  A fee is an unsigned 64-bit number hi * 2^63 + lo with   *)
(* hi in {0, 1}: the values with hi = 1 are those above the signed         *)
(* 64-bit maximum.                                                         *)
(***************************************************************************)
Fee(hi, lo) == [hi |-> hi, lo |-> lo]

SigA == Rep(SIGNATURE_BYTES, 0)

SigB == <<1>> \o Rep(SIGNATURE_BYTES - 1, 0)

SigC == <<0, 7>> \o Rep(SIGNATURE_BYTES - 2, 255)

SigShort == Rep(SIGNATURE_BYTES - 1, 0)

Key1 == <<9>> \o Rep(PUBKEY_BYTES - 1, 1)

Key2 == Rep(PUBKEY_BYTES, 0)

KeyShort == Rep(PUBKEY_BYTES - 1, 1)

\* SubscribeUpdateTransactionInfo: signature, transaction.message.account_keys, meta.fee
TxInfo(keys, meta, sig) == [account_keys |-> keys, meta |-> meta, signature |-> sig]

InfoA == TxInfo(Some(<<Key1, Key2>>), Some(Fee(0, 5000)), SigA)

InfoB == TxInfo(Some(<<Key2>>), Some(Fee(0, 0)), SigB)

InfoBigFee == TxInfo(Some(<<Key1>>), Some(Fee(1, 0)), SigC)

\* a Timestamp: its seconds, and whether it converts to a SystemTime
Timestamp(secs, ok) == [seconds |-> secs, convertible |-> ok]

At(secs) == Some(Timestamp(secs, TRUE))

\* SubscribeUpdate: created_at, update_oneof (its kind and, for a Transaction, msg.transaction)
Update(created_at, kind, tx) == [created_at |-> created_at, kind |-> kind, transaction |-> tx]

Transactions ==
  { Update(At(7), "Transaction", Some(InfoA)),
    Update(At(9), "Transaction", Some(InfoA)),
    Update(At(7), "Transaction", Some(InfoB)),
    Update(At(7), "Transaction", Some(InfoBigFee)),
    Update(At(7), "Transaction", Some(TxInfo(None, Some(Fee(0, 5000)), SigA))),
    Update(At(7), "Transaction", Some(TxInfo(Some(<<>>), Some(Fee(0, 5000)), SigA))),
    Update(At(7), "Transaction", Some(TxInfo(Some(<<KeyShort>>), Some(Fee(0, 5000)), SigA))),
    Update(At(7), "Transaction", Some(TxInfo(Some(<<Key1>>), None, SigA))),
    Update(At(7), "Transaction", Some(TxInfo(Some(<<Key1>>), Some(Fee(0, 5000)), SigShort))),
    Update(At(7), "Transaction", None),
    Update(At(-1), "Transaction", Some(InfoB)),
    Update(None, "Transaction", Some(InfoB)) }

Others ==
  { Update(At(7), "Ping", None),
    Update(None, "Ping", None),
    Update(Some(Timestamp(7, FALSE)), "Ping", None),
    Update(At(7), "Pong", None),
    Update(None, "Pong", None),
    Update(At(7), "None", None),
    Update(At(7), "Slot", None),
    Update(None, "Slot", None) }

Inbound == Transactions \cup Others

(***************************************************************************)
(* Record codec: create_pretty_transaction.                                *)
(***************************************************************************)
Result(tag, value) == [tag |-> tag, value |-> value]

\* Signature::try_from(bytes): the bytes when there are SIGNATURE_BYTES of them
Signature_try_from(bytes) ==
  IF Len(bytes) = SIGNATURE_BYTES THEN Result("Ok", Some(bytes)) ELSE Result("Err", None)

\* the signatures and keys of the inbound data, encoded once
EncodedBytes ==
  LET infos == { Unwrap(m.transaction) : m \in { u \in Transactions : IsSome(u.transaction) } }
      keyLists == { Unwrap(i.account_keys) : i \in { j \in infos : IsSome(j.account_keys) } }
  IN  { i.signature : i \in infos }
        \cup UNION { { l[k] : k \in 1..Len(l) } : l \in keyLists }

Base58Table == [b \in EncodedBytes |-> Base58(b)]

\* Display of a Signature or a Pubkey
to_string(bytes) == Base58Table[bytes]

\* create_pubkey_vec: every key must be PUBKEY_BYTES long
create_pubkey_vec(keys) ==
  IF \A k \in 1..Len(keys) : Len(keys[k]) = PUBKEY_BYTES
  THEN Result("Ok", Some(keys)) ELSE Result("Err", None)

\* the signer taken from the last account key instead of the first
create_pretty_transaction_LastKey(tx) ==
  IF ~IsSome(tx.account_keys) THEN Result("Panic", None)
  ELSE LET pubkeys == create_pubkey_vec(Unwrap(tx.account_keys))
       IN  IF pubkeys.tag # "Ok" THEN Result("Panic", None)
           ELSE IF Len(Unwrap(pubkeys.value)) = 0 THEN Result("Panic", None)
           ELSE IF ~IsSome(tx.meta) THEN Result("Panic", None)
           ELSE LET signer == to_string(Unwrap(pubkeys.value)[Len(Unwrap(pubkeys.value))])
                    fee == Unwrap(tx.meta)
                    signature == Signature_try_from(tx.signature)
                IN  IF signature.tag # "Ok" THEN Result("Err", None)
                    ELSE Result("Ok", Some([txn_hash |-> to_string(Unwrap(signature.value)),
                                            signer |-> signer,
                                            fee |-> fee]))

create_pretty_transaction(tx) ==
  IF ~IsSome(tx.account_keys) THEN Result("Panic", None)
  ELSE LET pubkeys == create_pubkey_vec(Unwrap(tx.account_keys))
       IN  IF pubkeys.tag # "Ok" THEN Result("Panic", None)
           ELSE IF Len(Unwrap(pubkeys.value)) = 0 THEN Result("Panic", None)
           ELSE IF ~IsSome(tx.meta) THEN Result("Panic", None)
           ELSE LET signer == to_string(Unwrap(pubkeys.value)[1])
                    fee == Unwrap(tx.meta)
                    signature == Signature_try_from(tx.signature)
                IN  IF signature.tag # "Ok" THEN Result("Err", None)
                    ELSE Result("Ok", Some([txn_hash |-> to_string(Unwrap(signature.value)),
                                            signer |-> signer,
                                            fee |-> fee]))

(***************************************************************************)
(* Persistence sink: add_record and the txns table.                        *)
(***************************************************************************)
\* serde_json Value::as_i64 of an unsigned number
as_i64(n) == IF n.hi = 0 THEN Some(n.lo) ELSE None

Hashes(table) == { r.txn_hash : r \in BagToSet(table) }

\* an INSERT into a table without a key on txn_hash
StoreInsert_NoKey(table, row, storeOk) ==
  IF ~storeOk THEN [tag |-> "StoreError", table |-> table]
  ELSE [tag |-> "Ok", table |-> table (+) SetToBag({row})]

\* the table txns(txn_hash text primary key, ...): one INSERT statement
StoreInsert(table, row, storeOk) ==
  IF ~storeOk THEN [tag |-> "StoreError", table |-> table]
  ELSE IF row.txn_hash \in Hashes(table) THEN [tag |-> "UniqueViolation", table |-> table]
  ELSE [tag |-> "Ok", table |-> table (+) SetToBag({row})]

add_record(table, data, storeOk) ==
  IF ~IsSome(as_i64(data.fee)) THEN [tag |-> "Panic", table |-> table]
  ELSE StoreInsert(table,
                   [txn_hash |-> data.txn_hash,
                    unix_epoch |-> data.unix_epoch,
                    signer |-> data.signer,
                    fee |-> Unwrap(as_i64(data.fee))],
                   storeOk)

(***************************************************************************)
(* Update dispatcher: one pass of the while-let loop of geyser_subscribe   *)
(* on the message msg.  ctl is what the loop does next: "continue",        *)
(* "break" (leave the loop, return Ok), "return" (the ? operator returns   *)
(* the error) or "panic" (an unwrap fails).                                *)
(***************************************************************************)
Step(ctl, cause, table, sent, persist) ==
  [ctl |-> ctl, cause |-> cause, table |-> table, sent |-> sent, persist |-> persist,
   handed |-> None]

\* the pass called add_record(&pool, &value) with value = data
Handed(step, data) == [step EXCEPT !.handed = Some(data)]

\* the write left to a task that the loop does not await
HandleTransaction_Deferred(msg, table, storeOk) ==
  IF ~IsSome(msg.transaction) THEN Step("return", "NoTransaction", table, <<>>, "None")
  ELSE LET value == create_pretty_transaction(Unwrap(msg.transaction))
       IN  IF value.tag = "Panic" THEN Step("panic", "DecodePanic", table, <<>>, "None")
           ELSE IF value.tag = "Err" THEN Step("return", "InvalidSignature", table, <<>>, "None")
           ELSE IF Unwrap(msg.created_at).seconds < 0
                THEN Step("panic", "BeforeEpoch", table, <<>>, "None")
           ELSE LET v == Unwrap(value.value)
                    data == [txn_hash |-> v.txn_hash, signer |-> v.signer, fee |-> v.fee,
                             unix_epoch |-> Unwrap(msg.created_at).seconds]
                IN  Handed(Step("continue", "None", table, <<>>, "Ok"), data)

HandleTransaction(msg, table, storeOk) ==
  IF ~IsSome(msg.transaction) THEN Step("return", "NoTransaction", table, <<>>, "None")
  ELSE LET value == create_pretty_transaction(Unwrap(msg.transaction))
       IN  IF value.tag = "Panic" THEN Step("panic", "DecodePanic", table, <<>>, "None")
           ELSE IF value.tag = "Err" THEN Step("return", "InvalidSignature", table, <<>>, "None")
           ELSE IF Unwrap(msg.created_at).seconds < 0
                THEN Step("panic", "BeforeEpoch", table, <<>>, "None")
           ELSE LET v == Unwrap(value.value)
                    data == [txn_hash |-> v.txn_hash, signer |-> v.signer, fee |-> v.fee,
                             unix_epoch |-> Unwrap(msg.created_at).seconds]
                    added == add_record(table, data, storeOk)
                IN  IF added.tag = "Panic"
                    THEN Handed(Step("panic", "FeeOverflow", table, <<>>, "None"), data)
                    ELSE IF added.tag # "Ok"
                    THEN Handed(Step("panic", "PersistFailed", table, <<>>, added.tag), data)
                    ELSE Handed(Step("continue", "None", added.table, <<>>, "Ok"), data)

HandlePing(table, sendOk) ==
  IF sendOk THEN Step("continue", "None", table, <<PING_ID>>, "None")
  ELSE Step("return", "SendFailed", table, <<>>, "None")

\* a Pong answered like a Ping
HandlePong_Acks(table) == Step("continue", "None", table, <<PING_ID>>, "None")

HandlePong(table) == Step("continue", "None", table, <<>>, "None")

\* the kind matched before created_at is looked at: a Pong needs no timestamp
HandleMessage_KindFirst(msg, table, sendOk, storeOk) ==
  IF msg.kind = "Pong" THEN HandlePong(table)
  ELSE IF ~IsSome(msg.created_at) THEN Step("return", "NoCreatedAt", table, <<>>, "None")
  ELSE IF ~Unwrap(msg.created_at).convertible
       THEN Step("return", "BadCreatedAt", table, <<>>, "None")
  ELSE CASE msg.kind = "Transaction" -> HandleTransaction(msg, table, storeOk)
         [] msg.kind = "Ping" -> HandlePing(table, sendOk)
         [] msg.kind = "None" -> Step("break", "AbsentTag", table, <<>>, "None")
         [] OTHER -> Step("break", "UnknownTag", table, <<>>, "None")

HandleMessage(msg, table, sendOk, storeOk) ==
  IF ~IsSome(msg.created_at) THEN Step("return", "NoCreatedAt", table, <<>>, "None")
  ELSE IF ~Unwrap(msg.created_at).convertible
       THEN Step("return", "BadCreatedAt", table, <<>>, "None")
  ELSE CASE msg.kind = "Transaction" -> HandleTransaction(msg, table, storeOk)
         [] msg.kind = "Ping" -> HandlePing(table, sendOk)
         [] msg.kind = "Pong" -> HandlePong(table)
         [] msg.kind = "None" -> Step("break", "AbsentTag", table, <<>>, "None")
         [] OTHER -> Step("break", "UnknownTag", table, <<>>, "None")

(***************************************************************************)
(* Command line and subscribe request.                                     *)
(***************************************************************************)
\* the values of --commitment: absent, or one of the three levels
ArgsCommitments == {None, Some("Processed"), Some("Confirmed"), Some("Finalized")}

\* #[default] of ArgsCommitment
ArgsCommitment_default == "Finalized"

\* From<ArgsCommitment> for CommitmentLevel
CommitmentLevel_from(commitment) ==
  CASE commitment = "Processed" -> "CommitmentLevel::Processed"
    [] commitment = "Confirmed" -> "CommitmentLevel::Confirmed"
    [] OTHER -> "CommitmentLevel::Finalized"

\* Args::get_commitment: the level of the default, whatever the flag
get_commitment(commitment_flag) == Some(CommitmentLevel_from(ArgsCommitment_default))

\* get_subscribe_request: Ok(Some(request)); of the request, its commitment
get_subscribe_request(commitment) == [commitment |-> commitment]

(***************************************************************************)
(* Backoff schedule: ExponentialBackoff::next_backoff.                     *)
(***************************************************************************)
\* the randomized interval for rand in {-1, 0, 1}: lowest, middle and highest value
get_random_value_from_interval(rand, interval) ==
  interval + rand * ((interval * RANDOMIZATION_NUM) \div RANDOMIZATION_DEN)

increment_current_interval(interval) ==
  IF interval * MULTIPLIER_NUM >= MAX_INTERVAL_MILLIS * MULTIPLIER_DEN
  THEN MAX_INTERVAL_MILLIS
  ELSE (interval * MULTIPLIER_NUM) \div MULTIPLIER_DEN

\* the wait before the next attempt (None: give up) and the advanced interval
next_backoff(interval, elapsed_time, rand) ==
  IF elapsed_time > MAX_ELAPSED_TIME_MILLIS
  THEN [wait |-> None, interval |-> interval]
  ELSE LET randomized == get_random_value_from_interval(rand, interval)
       IN  [wait |-> IF elapsed_time + randomized <= MAX_ELAPSED_TIME_MILLIS
                     THEN Some(randomized) ELSE None,
            interval |-> increment_current_interval(interval)]

(***************************************************************************)
(* State.                                                                  *)
(***************************************************************************)
VARIABLES
  pc,               \* position of the process
  zero_attempts,    \* the shared first-attempt flag of main
  current_interval, \* ExponentialBackoff.current_interval, in ms
  elapsed,          \* time since the retry started (ExponentialBackoff.start_time), in ms
  delay,            \* the wait chosen before the attempt that follows
  attempts,         \* runs of the retried operation started so far
  txns,             \* the rows of table txns, a bag
  opResult,         \* what the retried operation returned: "None", "Ok" or "Transient"
  sessionOutcome,   \* what geyser_subscribe returned: "None", "Clean" (Ok) or "Transient" (Err)
  exitCause,        \* the event that ended the attempt
  received,         \* messages the stream of this session has yielded
  rxPing,           \* Ping updates among them
  rxGoodTx,         \* well-formed, not previously seen Transaction updates among them
  persisted,        \* rows this session has inserted
  outbound,         \* ping ids this session wrote to subscribe_tx
  lastMsg,          \* the last message the stream yielded (an Option)
  lastFresh,        \* whether it was a well-formed, not previously seen Transaction update
  persistResult,    \* the result of the last add_record of this session
  seen,             \* signatures of the well-formed Transaction updates received in the run
  args,             \* Args.commitment, the --commitment flag
  request,          \* the subscribe request built in this attempt (an Option)
  pool,             \* whether this attempt holds a store connection
  connections,      \* the attempts whose feed connection (client, stream) is alive
  handed,           \* the value the last pass gave to add_record (an Option)
  rxLog,            \* signatures of the session's well-formed, new Transaction updates, in arrival order
  persistLog        \* txn_hash of the rows the session inserted, in insertion order

vars == <<pc, zero_attempts, current_interval, elapsed, delay, attempts, txns, opResult,
          sessionOutcome, exitCause, received, rxPing, rxGoodTx, persisted, outbound,
          lastMsg, lastFresh, persistResult, seen, args, request, pool, connections,
          handed, rxLog, persistLog>>

supervisorVars == <<zero_attempts, current_interval, elapsed, delay, attempts>>

sessionVars ==
  <<received, rxPing, rxGoodTx, persisted, outbound, lastMsg, lastFresh, persistResult,
    handed, rxLog, persistLog>>

resourceVars == <<pool, connections>>

\* a Transaction payload the codec accepts: keys present, non-empty and of the
\* right length, metadata present, signature of the fixed length
WellFormed(msg) ==
  /\ msg.kind = "Transaction"
  /\ IsSome(msg.transaction)
  /\ LET tx == Unwrap(msg.transaction)
     IN  /\ IsSome(tx.account_keys)
         /\ Len(Unwrap(tx.account_keys)) > 0
         /\ \A k \in 1..Len(Unwrap(tx.account_keys)) : Len(Unwrap(tx.account_keys)[k]) = PUBKEY_BYTES
         /\ IsSome(tx.meta)
         /\ Len(tx.signature) = SIGNATURE_BYTES

\* a well-formed Transaction update: it carries its arrival time and a payload
\* the codec accepts
WellFormedUpdate(msg) ==
  /\ WellFormed(msg)
  /\ IsSome(msg.created_at)
  /\ Unwrap(msg.created_at).convertible

SessionReset ==
  /\ received' = 0
  /\ rxPing' = 0
  /\ rxGoodTx' = 0
  /\ persisted' = 0
  /\ outbound' = <<>>
  /\ lastMsg' = None
  /\ lastFresh' = FALSE
  /\ persistResult' = "None"
  /\ handed' = None
  /\ rxLog' = <<>>
  /\ persistLog' = <<>>

Init ==
  /\ pc = "attempt"
  /\ zero_attempts = TRUE
  /\ current_interval = INITIAL_INTERVAL_MILLIS
  /\ elapsed = 0
  /\ delay = 0
  /\ attempts = 1
  /\ txns = EmptyBag
  /\ opResult = "None"
  /\ sessionOutcome = "None"
  /\ exitCause = "None"
  /\ received = 0
  /\ rxPing = 0
  /\ rxGoodTx = 0
  /\ persisted = 0
  /\ outbound = <<>>
  /\ lastMsg = None
  /\ lastFresh = FALSE
  /\ persistResult = "None"
  /\ seen = {}
  /\ args \in ArgsCommitments
  /\ request = None
  /\ pool = FALSE
  /\ connections = {}
  /\ handed = None
  /\ rxLog = <<>>
  /\ persistLog = <<>>

(***************************************************************************)
(* The retried operation of main.                                          *)
(***************************************************************************)
\* a failed PgPool::connect mapped to a transient error instead of unwrapped
StoreConnect_Retried(ok) ==
  /\ pc = "attempt"
  /\ IF ok
     THEN /\ pc' = "connect"
          /\ zero_attempts' = FALSE
          /\ exitCause' = exitCause
          /\ pool' = TRUE
          /\ opResult' = opResult
     ELSE /\ pc' = "returned"
          /\ zero_attempts' = zero_attempts
          /\ exitCause' = "StoreConnectFailed"
          /\ pool' = FALSE
          /\ opResult' = "Transient"
  /\ UNCHANGED <<current_interval, elapsed, delay, attempts, txns, sessionOutcome,
                 sessionVars, seen, args, request, connections>>

\* PgPool::connect(..).await.unwrap(), then the first-attempt flag
StoreConnect(ok) ==
  /\ pc = "attempt"
  /\ IF ok
     THEN /\ pc' = "connect"
          /\ zero_attempts' = FALSE
          /\ exitCause' = exitCause
          /\ pool' = TRUE
     ELSE /\ pc' = "panicked"
          /\ zero_attempts' = zero_attempts
          /\ exitCause' = "StoreConnectPanic"
          /\ pool' = FALSE
  /\ UNCHANGED <<current_interval, elapsed, delay, attempts, txns, opResult, sessionOutcome,
                 sessionVars, seen, args, request, connections>>

\* args.connect().await.map_err(transient)?, then get_subscribe_request
FeedConnect(ok) ==
  /\ pc = "connect"
  /\ IF ok
     THEN /\ pc' = "subscribe"
          /\ connections' = connections \cup {attempts}
          /\ request' = Some(get_subscribe_request(get_commitment(args)))
          /\ UNCHANGED <<opResult, exitCause, pool>>
     ELSE /\ pc' = "returned"
          /\ opResult' = "Transient"
          /\ exitCause' = "ConnectFailed"
          /\ pool' = FALSE
          /\ UNCHANGED <<connections, request>>
  /\ UNCHANGED <<supervisorVars, txns, sessionOutcome, sessionVars, seen, args>>

(***************************************************************************)
(* geyser_subscribe.                                                       *)
(***************************************************************************)
\* geyser_subscribe returns without dropping the client it was given
SessionReturns_Leak(outcome, cause) ==
  /\ sessionOutcome' = outcome
  /\ exitCause' = cause
  /\ opResult' = IF outcome = "Clean" THEN "Ok" ELSE "Transient"
  /\ pc' = "returned"
  /\ connections' = connections
  /\ pool' = FALSE

\* geyser_subscribe returns: pool, client, subscribe_tx and stream are dropped,
\* and main maps the value returned
SessionReturns(outcome, cause) ==
  /\ sessionOutcome' = outcome
  /\ exitCause' = cause
  /\ opResult' = IF outcome = "Clean" THEN "Ok" ELSE "Transient"
  /\ pc' = "returned"
  /\ connections' = connections \ {attempts}
  /\ pool' = FALSE

\* client.subscribe_with_request(Some(request)).await?
Subscribe(ok) ==
  /\ pc = "subscribe"
  /\ IF ok
     THEN /\ pc' = "streaming"
          /\ UNCHANGED <<opResult, sessionOutcome, exitCause, resourceVars>>
     ELSE SessionReturns("Transient", "SubscribeFailed")
  /\ UNCHANGED <<supervisorVars, txns, sessionVars, seen, args, request>>

\* stream.next() yields Some(Ok(msg)): one pass of the loop
Dispatch(msg, sendOk, storeOk) ==
  /\ pc = "streaming"
  /\ received < MaxMsgs
  /\ \E step \in {HandleMessage(msg, txns, sendOk, storeOk)},
        fresh \in {WellFormedUpdate(msg) /\ Unwrap(msg.transaction).signature \notin seen} :
         /\ txns' = step.table
         /\ outbound' = outbound \o step.sent
         /\ persisted' = persisted + BagCardinality(step.table) - BagCardinality(txns)
         /\ persistResult' = step.persist
         /\ received' = received + 1
         /\ rxPing' = rxPing + (IF msg.kind = "Ping" THEN 1 ELSE 0)
         /\ rxGoodTx' = rxGoodTx + (IF fresh THEN 1 ELSE 0)
         /\ seen' = IF WellFormedUpdate(msg)
                    THEN seen \cup {Unwrap(msg.transaction).signature} ELSE seen
         /\ lastMsg' = Some(msg)
         /\ lastFresh' = fresh
         /\ handed' = step.handed
         /\ rxLog' = IF fresh THEN Append(rxLog, Unwrap(msg.transaction).signature) ELSE rxLog
         /\ persistLog' = IF BagCardinality(step.table) > BagCardinality(txns)
                          THEN Append(persistLog, Unwrap(step.handed).txn_hash)
                          ELSE persistLog
         /\ CASE step.ctl = "continue" ->
                   /\ pc' = "streaming"
                   /\ UNCHANGED <<opResult, sessionOutcome, exitCause, resourceVars>>
              [] step.ctl = "break" -> SessionReturns("Clean", step.cause)
              [] step.ctl = "return" -> SessionReturns("Transient", step.cause)
              [] OTHER ->
                   /\ pc' = "panicked"
                   /\ exitCause' = step.cause
                   /\ UNCHANGED <<opResult, sessionOutcome, resourceVars>>
  /\ UNCHANGED <<supervisorVars, args, request>>

\* stream.next() yields Some(Err(error)): logged, break
StreamError ==
  /\ pc = "streaming"
  /\ SessionReturns("Clean", "TransportError")
  /\ UNCHANGED <<supervisorVars, txns, sessionVars, seen, args, request>>

\* stream.next() yields None: the loop ends
StreamEnd ==
  /\ pc = "streaming"
  /\ SessionReturns("Clean", "EndOfInput")
  /\ UNCHANGED <<supervisorVars, txns, sessionVars, seen, args, request>>

\* time passes while the operation awaits the feed: args.connect() or stream.next()
Tick ==
  /\ pc \in {"connect", "streaming"}
  /\ elapsed <= MAX_ELAPSED_TIME_MILLIS
  /\ elapsed' = Min(elapsed + SessionLifetimeMillis, MAX_ELAPSED_TIME_MILLIS + 1)
  /\ UNCHANGED <<pc, zero_attempts, current_interval, delay, attempts, txns, opResult,
                 sessionOutcome, exitCause, sessionVars, seen, args, request, resourceVars>>

(***************************************************************************)
(* backoff::future::retry: the supervisor.                                 *)
(***************************************************************************)
\* the retried operation has returned: finish, or choose the wait before the next attempt
RetryPoll(rand) ==
  /\ pc = "returned"
  /\ IF opResult = "Ok"
     THEN /\ pc' = "exit_ok"
          /\ UNCHANGED <<current_interval, delay>>
     ELSE LET next == next_backoff(current_interval, elapsed, rand)
          IN  /\ current_interval' = next.interval
              /\ IF IsSome(next.wait)
                 THEN /\ pc' = "sleeping"
                      /\ delay' = Unwrap(next.wait)
                 ELSE /\ pc' = "exit_err"
                      /\ delay' = delay
  /\ UNCHANGED <<zero_attempts, elapsed, attempts, txns, opResult, sessionOutcome, exitCause,
                 sessionVars, seen, args, request, resourceVars>>

\* the sleep is over: the operation is run again
SleepDone ==
  /\ pc = "sleeping"
  /\ attempts < MaxAttempts
  /\ pc' = "attempt"
  /\ elapsed' = elapsed + delay
  /\ attempts' = attempts + 1
  /\ opResult' = "None"
  /\ sessionOutcome' = "None"
  /\ exitCause' = "None"
  /\ request' = None
  /\ SessionReset
  /\ UNCHANGED <<zero_attempts, current_interval, delay, txns, seen, args, resourceVars>>

Next ==
  \/ \E ok \in BOOLEAN : StoreConnect(ok)
  \/ \E ok \in BOOLEAN : FeedConnect(ok)
  \/ \E ok \in BOOLEAN : Subscribe(ok)
  \/ StreamError
  \/ StreamEnd
  \/ \E msg \in Inbound, sendOk \in BOOLEAN, storeOk \in BOOLEAN : Dispatch(msg, sendOk, storeOk)
  \/ Tick
  \/ \E rand \in {-1, 0, 1} : RetryPoll(rand)
  \/ SleepDone

Spec == Init /\ [][Next]_vars

TypeOK ==
  /\ pc \in {"attempt", "connect", "subscribe", "streaming", "returned", "sleeping",
             "exit_ok", "exit_err", "panicked"}
  /\ zero_attempts \in BOOLEAN
  /\ attempts \in 1..MaxAttempts
  /\ opResult \in {"None", "Ok", "Transient"}
  /\ sessionOutcome \in {"None", "Clean", "Transient"}
  /\ received \in 0..MaxMsgs
  /\ args \in ArgsCommitments
  /\ request \in {None} \cup {Some([commitment |-> Some(l)]) :
                                  l \in {"CommitmentLevel::Processed",
                                         "CommitmentLevel::Confirmed",
                                         "CommitmentLevel::Finalized"}}
  /\ pool \in BOOLEAN
  /\ connections \subseteq 1..MaxAttempts
  /\ Len(rxLog) <= MaxMsgs
  /\ Len(persistLog) <= Len(rxLog)

(***************************************************************************)
(* Properties.                                                             *)
(***************************************************************************)
\* the step is one pass of the dispatch loop
Dispatched == received' = received + 1

\* the dispatch loop has been left (the session was open)
LoopExited ==
  exitCause \notin {"None", "StoreConnectPanic", "ConnectFailed", "SubscribeFailed"}

\* the loop was left while handling lastMsg, not because the stream ended or failed
ExitedOnMessage == LoopExited /\ exitCause \notin {"EndOfInput", "TransportError"}

\* a Transaction update with a payload that the codec cannot decode
Undecodable(msg) ==
  /\ msg.kind = "Transaction"
  /\ IsSome(msg.created_at)
  /\ Unwrap(msg.created_at).convertible
  /\ IsSome(msg.transaction)
  /\ ~WellFormed(msg)

\* a Transaction update that decodes to a record the sink can write
Persistable(msg) ==
  /\ WellFormedUpdate(msg)
  /\ Unwrap(msg.created_at).seconds >= 0
  /\ Unwrap(Unwrap(msg.transaction).meta).hi = 0

\* C1: when the stream of an open session yields a transport-level error, the
\* supervisor goes on to wait for a new attempt; the process does not stop
\* because of that error.
C1_TransportErrorRetried ==
  [][(pc = "returned" /\ exitCause = "TransportError") => pc' = "sleeping"]_vars

\* C2: a session's outcome is Clean if and only if its stream reached
\* end-of-input; a session left on a transport-level error reports Transient.
C2_CleanIffEndOfInput ==
  sessionOutcome # "None" => (sessionOutcome = "Clean" <=> exitCause = "EndOfInput")

\* C3: when a session ends Clean because the peer closed the stream, the
\* supervisor starts a new attempt instead of letting the retry finish.
C3_CleanRetried ==
  [][(pc = "returned" /\ sessionOutcome = "Clean" /\ exitCause = "EndOfInput")
       => pc' \in {"sleeping", "attempt"}]_vars

\* C4: after every Transient outcome another attempt is scheduled, however many
\* attempts have failed and however much time has elapsed since the run started.
C4_NeverGivesUp ==
  [][(pc = "returned" /\ opResult = "Transient") => pc' = "sleeping"]_vars

\* C5: a Transaction update that fails to decode produces no record and does
\* not end the session or the process: the loop continues with the next message.
C5_DecodeFailureDropped ==
  [][(Dispatched /\ Undecodable(Unwrap(lastMsg')))
       => (pc' = "streaming" /\ txns' = txns)]_vars

\* C6: persisting a record whose txn_hash is already in the table succeeds (the
\* store being reachable) and the dispatch loop keeps running.
C6_DuplicatePersistSucceeds ==
  [][(/\ Dispatched
      /\ Persistable(Unwrap(lastMsg'))
      /\ to_string(Unwrap(Unwrap(lastMsg').transaction).signature) \in Hashes(txns)
      /\ persistResult' # "StoreError")
       => (persistResult' = "Ok" /\ pc' = "streaming")]_vars

\* C7: the table holds at most one row per txn_hash, whatever was delivered,
\* duplicated within a session or re-delivered after a reconnect.
C7_OneRowPerHash ==
  \A r1 \in BagToSet(txns) :
    /\ CopiesIn(r1, txns) = 1
    /\ \A r2 \in BagToSet(txns) : r1.txn_hash = r2.txn_hash => r1 = r2

\* C7 witness: a record persisted in an earlier session was delivered again
\* after a reconnect, and the table still holds its single row.
C7_Witness ==
  /\ attempts > 1
  /\ persistResult = "UniqueViolation"
  /\ IsSome(lastMsg)
  /\ Cardinality({ r \in BagToSet(txns) :
                     r.txn_hash = to_string(Unwrap(Unwrap(lastMsg).transaction).signature) }) = 1

\* C8: a failed write of one record is not fatal: the session and the process
\* go on with the next inbound message.
C8_PersistFailureNotFatal ==
  [][(Dispatched /\ persistResult' = "StoreError") => pc' = "streaming"]_vars

\* C9: a message whose update tag is absent or unknown ends the session with a
\* Transient outcome, and nothing is persisted or processed in it afterwards.
C9_UnknownTagTransient ==
  [][/\ exitCause' \in {"AbsentTag", "UnknownTag"} => sessionOutcome' = "Transient"
     /\ (exitCause \in {"AbsentTag", "UnknownTag"} /\ exitCause' = exitCause)
          => (txns' = txns /\ received' = received)]_vars

\* C10: when the dispatch loop is left, the rows the session inserted are as
\* many as the well-formed, not previously seen Transaction updates received
\* before the terminating event, and the acknowledgements written to the
\* outbound sender, all with the fixed id, are as many as the Ping updates
\* received before it; a Pong adds to neither.
C10_CountsAtExit ==
  LoopExited =>
    LET last == Unwrap(lastMsg)
        goodBefore == rxGoodTx - (IF ExitedOnMessage /\ lastFresh THEN 1 ELSE 0)
        pingsBefore == rxPing - (IF ExitedOnMessage /\ last.kind = "Ping" THEN 1 ELSE 0)
    IN  /\ persisted = goodBefore
        /\ Len(outbound) = pingsBefore
        /\ \A i \in 1..Len(outbound) : outbound[i] = PING_ID

\* C10 witness: Transaction, Ping, Pong, Transaction, then a transport error:
\* two rows inserted and one acknowledgement written.
C10_Witness ==
  /\ exitCause = "TransportError"
  /\ received = 4
  /\ persisted = 2
  /\ outbound = <<PING_ID>>
  /\ rxPing = 1

\* the byte strings of the inbound data whose encoding is the text
Decodings(text) == { b \in EncodedBytes : to_string(b) = text }

\* the rows the step added to the table
RowsAdded == { r \in BagToSet(txns') : CopiesIn(r, txns') > CopiesIn(r, txns) }

\* C11: for a valid Transaction payload (account keys present and of key
\* length, metadata present, signature of SIGNATURE_BYTES bytes) received
\* with an arrival time t at or after the epoch, the record derived has the
\* first account key as signer, the payload's fee as fee, the whole seconds
\* of t as unix_epoch and as txn_hash a text that only the signature's bytes
\* encode to; that record is the value given to add_record, and a row the
\* pass inserts carries its fields.
C11_RecordDerived ==
  [][(Dispatched /\ WellFormedUpdate(Unwrap(lastMsg'))
        /\ Unwrap(Unwrap(lastMsg').created_at).seconds >= 0) =>
       LET m == Unwrap(lastMsg')
           tx == Unwrap(m.transaction)
           rec == Unwrap(handed')
       IN  /\ IsSome(handed')
           /\ Decodings(rec.signer) = {Unwrap(tx.account_keys)[1]}
           /\ rec.fee = Unwrap(tx.meta)
           /\ rec.unix_epoch = Unwrap(m.created_at).seconds
           /\ Decodings(rec.txn_hash) = {tx.signature}
           /\ \A r \in RowsAdded :
                 /\ r.txn_hash = rec.txn_hash
                 /\ r.signer = rec.signer
                 /\ r.unix_epoch = rec.unix_epoch
                 /\ Fee(0, r.fee) = rec.fee]_vars

\* a payload with two account keys was decoded and its record inserted
C11_Witness ==
  /\ IsSome(lastMsg)
  /\ Unwrap(lastMsg) = Update(At(9), "Transaction", Some(InfoA))
  /\ IsSome(handed)
  /\ persistResult = "Ok"
  /\ \E r \in BagToSet(txns) : r.txn_hash = Unwrap(handed).txn_hash /\ r.unix_epoch = 9

\* C12: no wait precedes the first attempt; of two consecutive waits the
\* later is at least the earlier, as long as the earlier is below the maximum
\* interval; the position in the schedule never steps back.
C12_WaitsNonDecreasing ==
  [][/\ (pc = "attempt" /\ attempts = 1) => (delay = 0 /\ elapsed = 0)
     /\ (pc = "returned" /\ pc' = "sleeping") => delay' >= Min(delay, MAX_INTERVAL_MILLIS)
     /\ current_interval' >= current_interval]_vars

\* C13: at most one feed connection is alive at any moment, and none is
\* alive from the return of an attempt's operation until the next attempt
\* has connected.
C13_OneSession ==
  /\ Cardinality(connections) <= 1
  /\ pc \in {"attempt", "connect", "returned", "sleeping", "exit_ok", "exit_err"}
       => connections = {}
  /\ pc \in {"subscribe", "streaming"} => connections = {attempts}

\* a later attempt holds the only connection
C13_Witness == attempts > 1 /\ pc = "streaming" /\ connections = {attempts}

\* C14: when the write of a ping acknowledgement fails, nothing is written
\* in its place, the session returns an error without a further pass of the
\* loop, and the supervisor then waits for a new attempt.
C14_PingSendFailure ==
  [][/\ (Dispatched /\ exitCause' = "SendFailed")
          => (outbound' = outbound /\ pc' = "returned" /\ sessionOutcome' = "Transient")
     /\ exitCause = "SendFailed" => ~Dispatched
     /\ (pc = "returned" /\ exitCause = "SendFailed") => pc' = "sleeping"]_vars

\* C15: the commitment of the subscribe request of every attempt is the
\* level of the --commitment flag when the flag is given, finalized when not.
C15_CommitmentSelected ==
  IsSome(request) =>
    Unwrap(request).commitment =
      Some(CommitmentLevel_from(IF IsSome(args) THEN Unwrap(args) ELSE ArgsCommitment_default))

\* C16: for every fee of a valid payload, above the signed 64-bit maximum
\* included, the pass reaches the store write and a row it inserts has the
\* payload's fee.
C16_FeePreserved ==
  [][(Dispatched /\ WellFormedUpdate(Unwrap(lastMsg'))
        /\ Unwrap(Unwrap(lastMsg').created_at).seconds >= 0) =>
       /\ persistResult' # "None"
       /\ \A r \in RowsAdded :
             Fee(0, r.fee) = Unwrap(Unwrap(Unwrap(lastMsg').transaction).meta)]_vars

\* the new, well-formed Transaction updates of the session whose pass ran to its end
Handled == IF pc = "panicked" /\ lastFresh THEN SubSeq(rxLog, 1, Len(rxLog) - 1) ELSE rxLog

\* C17: the rows a session inserted are, in insertion order, those of its
\* new well-formed Transaction updates in arrival order: every pass has
\* written its row before the next message is taken.
C17_InArrivalOrder ==
  /\ persistLog = [i \in 1..Len(Handled) |-> to_string(Handled[i])]
  /\ Len(outbound) <= rxPing

\* two rows were inserted, of the update that arrived first and then of the other
C17_Witness == persistLog = <<to_string(SigB), to_string(SigA)>> /\ pc = "streaming"

\* C18: a failed feed connect opens no connection and builds no subscribe
\* request, the operation returns a transient error, and the supervisor then
\* waits for a new attempt.
C18_ConnectFailure ==
  [][/\ (pc = "connect" /\ pc' = "returned")
          => (connections' = {} /\ request' = None /\ opResult' = "Transient")
     /\ (pc = "returned" /\ exitCause = "ConnectFailed") => pc' = "sleeping"]_vars

\* the message of the pass has no arrival time, or one that does not convert
NoArrivalTime(msg) == ~IsSome(msg.created_at) \/ ~Unwrap(msg.created_at).convertible

\* C19: a message without a usable arrival time ends the session with an
\* error whatever its kind: nothing is acknowledged, nothing is given to the
\* store, and the loop is left.
C19_NoTimestampEndsSession ==
  [][(Dispatched /\ NoArrivalTime(Unwrap(lastMsg'))) =>
       /\ pc' = "returned"
       /\ sessionOutcome' = "Transient"
       /\ exitCause' \in {"NoCreatedAt", "BadCreatedAt"}
       /\ outbound' = outbound
       /\ txns' = txns
       /\ handed' = None]_vars

\* a Pong without arrival time ended the session with an error
C19_Witness ==
  /\ lastMsg = Some(Update(None, "Pong", None))
  /\ pc = "returned"
  /\ sessionOutcome = "Transient"

\* C20: in every attempt the store connection is held before the feed is
\* connected, a request built or a message dispatched; an attempt whose
\* store connection fails ends the process, which takes no further step.
C20_StoreBeforeFeed ==
  [][/\ pc' \in {"connect", "subscribe", "streaming"} => pool'
     /\ (connections' # connections /\ connections' # {}) => pool
     /\ (request' # request /\ IsSome(request')) => pool
     /\ Dispatched => pool
     /\ (pc = "attempt" /\ ~pool') => pc' = "panicked"
     /\ pc # "panicked"]_vars

\* the store connection of a later attempt failed and the process ended
C20_Witness == attempts > 1 /\ pc = "panicked" /\ exitCause = "StoreConnectPanic"

====
